---- MODULE Spec2Model ----
(***************************************************************************)
(* Model of src/app.py: the Streamlit page that turns an uploaded score    *)
(* into an MP3 (soundfont provisioning, relocation of the oemer package,   *)
(* image normalisation, OMR invocation, audio rendering, click handler).   *)
(*                                                                         *)
(* A session is one browser session; every interaction reruns the script   *)
(* from line 166.  All sessions live in one server process and share       *)
(* sys.path, sys.argv and the filesystem.  Spec has one session (a         *)
(* sequence of runs); SpecConc has one or two sessions whose script runs   *)
(* interleave at the granularity of the steps below.                       *)
(*                                                                         *)
(* External libraries are modelled by their documented outcomes:           *)
(*   - st.stop() raises StopException, a BaseException: it is not caught   *)
(*     by `except Exception` and ends the script run;                      *)
(*   - requests / copytree / PIL / oemer / music21 / FluidSynth / pydub    *)
(*     succeed or raise, chosen nondeterministically.                      *)
(* A new interaction is accepted only while the session's script is not    *)
(* running (no cancellation is modelled).                                  *)
(***************************************************************************)
EXTENDS Integers, Sequences, FiniteSets, TLC

\* ------------------------------------------------------------------ bounds
MaxClicks == 3
MaxConcClicks == 1
MaxRestarts == 1
MaxDeletes == 1

\* --------------------------------------------------------------- constants
AllSessions == {1, 2}

\* A path is a directory and a file name; the name is its dot-separated parts.
Path(d, n) == [dir |-> d, name |-> n]

NoPath == Path("", <<>>)

\* line 17
SOUNDFONT_FILE == Path("", <<"FluidR3Mono_GM", "sf3">>)

\* line 38
local_oemer_dir == "oemer_local"

\* line 175
temp_dir == "temp_workspace"

\* sys.argv of the server process before any run_omr
BaseArgv == <<Path("", <<"streamlit">>), Path("", <<"run">>), Path("", <<"app", "py">>)>>

\* sys.path of a fresh server process
BasePath == <<"site-packages">>

\* The files of the installed oemer package and the texts they can hold: a
\* text is the list of execution providers the file names.
PackageFiles == {"ete.py", "inference.py"}

GpuToken == "CUDAExecutionProvider"

FileTexts == {<<"CPUExecutionProvider">>, <<GpuToken, "CPUExecutionProvider">>}

\* The packages that can be installed: ete.py names no provider list of its
\* own, inference.py holds one of the texts.
Packages ==
    {[f \in PackageFiles |-> IF f = "inference.py" THEN t ELSE <<"import inference">>] :
        t \in FileTexts}

NotInstalled == [f \in {} |-> <<>>]

\* The package as released: inference.py lists the GPU provider first.
StockPackage ==
    [f \in PackageFiles |->
        IF f = "inference.py" THEN <<GpuToken, "CPUExecutionProvider">>
        ELSE <<"import inference">>]

ContainsToken(text) == \E i \in 1..Len(text) : text[i] = GpuToken

\* Uploaded file names offered by st.file_uploader (line 171)
Uploads == {"score.pdf", "scan.PNG"}

NoFile == "none"

\* file_name.lower().endswith(".pdf") (line 77)
IsPdfName(file_name) ==
    CASE file_name = "score.pdf" -> TRUE
      [] file_name = "scan.PNG" -> FALSE

ImageModes == {"RGB", "RGBA"}

\* Python values sys.exit can carry
PyInt(n) == [t |-> "int", v |-> n]

PyNone == [t |-> "NoneType", v |-> 0]

ExitCodes == {PyInt(0), PyInt(1), PyNone}

\* str(code)
PyStr(c) ==
    IF c.t = "NoneType" THEN "None"
    ELSE CASE c.v = 0 -> "0" [] c.v = 1 -> "1"

\* The exit status the interpreter would end with for SystemExit(code)
ExitStatus(c) == IF c.t = "NoneType" THEN 0 ELSE c.v

\* An exception: its class and str(e)
Exc(type, msg) == [type |-> type, msg |-> msg]

NoExc == Exc("", "")

\* ---------------------------------------------------------------- state
VARIABLES
    sessions,      \* the browser sessions of this behaviour
    pc,            \* per session: the line the script run is at ("idle": not running)
    upload,        \* per session: uploaded_file (its name, or NoFile)
    clicked,       \* per session: value of st.button in the current run
    ui,            \* per session: what the page shows (status, success, audio, error)
    trace,         \* per session: the stages entered in the current / last run
    caught,        \* per session: the exception the click handler caught in this run
    local,         \* per session: locals img_path, xml_path, original_argv, outcome
    sysPath,       \* sys.path of the server process
    sysArgv,       \* sys.argv of the server process
    sysModules,    \* the modules the server process has imported
    soundfont,     \* SOUNDFONT_FILE on disk: "absent", "partial" or "complete"
    net,           \* network counters: requests made, successful downloads since deletion
    installed,     \* the installed oemer package: file -> text (NotInstalled: none)
    oemerLocal,    \* oemer_local on disk: [dirs, files]
    scratch,       \* temp_workspace on disk: [exists, files]
    budget         \* [clicks, restarts, deletes] used so far

vars == <<sessions, pc, upload, clicked, ui, trace, caught, local, sysPath, sysArgv,
          sysModules, soundfont, net, installed, oemerLocal, scratch, budget>>

procVars == <<sysPath, sysArgv, sysModules>>

diskVars == <<soundfont, net, oemerLocal, scratch>>

BlankUi == [status |-> "none", success |-> FALSE, audio |-> FALSE, error |-> ""]

NoFinish == [finish |-> "none", code |-> PyNone, out |-> "none"]

BlankLocal == [img_path |-> NoPath, xml_path |-> NoPath, mp3_path |-> NoPath,
               original_argv |-> <<>>, engine |-> NoFinish]

InitCommon ==
    /\ pc = [s \in AllSessions |-> "idle"]
    /\ upload = [s \in AllSessions |-> NoFile]
    /\ clicked = [s \in AllSessions |-> FALSE]
    /\ ui = [s \in AllSessions |-> BlankUi]
    /\ trace = [s \in AllSessions |-> <<>>]
    /\ caught = [s \in AllSessions |-> NoExc]
    /\ local = [s \in AllSessions |-> BlankLocal]
    /\ sysPath = BasePath
    /\ sysArgv = BaseArgv
    /\ sysModules = {}
    /\ soundfont = "absent"
    /\ net = [requests |-> 0, downloads |-> 0]
    /\ installed \in {NotInstalled} \cup Packages
    /\ oemerLocal = [dirs |-> {}, files |-> NotInstalled]
    /\ scratch = [exists |-> FALSE, files |-> [n \in {} |-> 0]]
    /\ budget = [clicks |-> 0, restarts |-> 0, deletes |-> 0]

\* One session on a freshly deployed host.
Init == sessions = {1} /\ InitCommon

\* One or two sessions on a host where oemer is absent or installed as released.
InitConc ==
    /\ sessions \in {{1}, {1, 2}}
    /\ InitCommon
    /\ installed \in {NotInstalled, StockPackage}

\* ------------------------------------------------------------ script helpers
\* The script moves to another line; nothing is shown and nothing is caught.
Goto(s, line) ==
    /\ pc' = [pc EXCEPT ![s] = line]
    /\ UNCHANGED <<ui, caught>>

Enter(s, stage) == trace' = [trace EXCEPT ![s] = Append(@, stage)]

\* What the click handler shows for a caught exception (lines 209-211).
HandlerSkipsStatus(page, e) == [page EXCEPT !.error = "An error occurred: " \o e.msg]

HandlerUi(page, e) ==
    [page EXCEPT !.status = "error", !.error = "An error occurred: " \o e.msg]

\* An exception raised inside the try block of the click handler (lines 186-213):
\* `except Exception` catches it and the script run ends.
Raise(s, e) ==
    /\ pc' = [pc EXCEPT ![s] = "idle"]
    /\ ui' = [ui EXCEPT ![s] = HandlerUi(@, e)]
    /\ caught' = [caught EXCEPT ![s] = e]

\* Where the script goes after st.stop(): nowhere, the run is over.
FallThroughAfterStop(next) == next

AfterStop(next) == "idle"

\* st.error(msg) followed by st.stop() (lines 29-30, 53-54); `next` is the line
\* that follows the st.stop() call in the source.
ErrorAndStop(s, msg, next) ==
    /\ pc' = [pc EXCEPT ![s] = AfterStop(next)]
    /\ ui' = [ui EXCEPT ![s].error = msg]
    /\ UNCHANGED caught

\* A rerun of the script begins (line 166): the page is redrawn from scratch.
BeginRun(s, isClick) ==
    /\ clicked' = [clicked EXCEPT ![s] = isClick]
    /\ ui' = [ui EXCEPT ![s] = BlankUi]
    /\ trace' = [trace EXCEPT ![s] = <<>>]
    /\ caught' = [caught EXCEPT ![s] = NoExc]
    /\ local' = [local EXCEPT ![s] = BlankLocal]

\* ------------------------------------------------------------- interactions
\* The user picks a file in st.file_uploader (line 171): the script reruns.
Upload(s, f) ==
    /\ pc[s] = "idle"
    /\ upload' = [upload EXCEPT ![s] = f]
    /\ BeginRun(s, FALSE)
    /\ pc' = [pc EXCEPT ![s] = "rmtree"]
    /\ UNCHANGED <<sessions, procVars, diskVars, installed, budget>>

\* The user removes the file: the rerun finds `if uploaded_file:` false (line 173).
ClearUpload(s) ==
    /\ pc[s] = "idle"
    /\ upload[s] # NoFile
    /\ upload' = [upload EXCEPT ![s] = NoFile]
    /\ BeginRun(s, FALSE)
    /\ pc' = pc
    /\ UNCHANGED <<sessions, procVars, diskVars, installed, budget>>

\* The clicks explored: MaxClicks in one session, MaxConcClicks in two.
ClickBudget == IF Cardinality(sessions) = 1 THEN MaxClicks ELSE MaxConcClicks

\* The user presses "Generate Audio" (line 183), rendered by the previous run.
Click(s) ==
    /\ pc[s] = "idle"
    /\ upload[s] # NoFile
    /\ budget.clicks < ClickBudget
    /\ budget' = [budget EXCEPT !.clicks = @ + 1]
    /\ BeginRun(s, TRUE)
    /\ pc' = [pc EXCEPT ![s] = "rmtree"]
    /\ UNCHANGED <<sessions, upload, procVars, diskVars, installed>>

\* --------------------------------------------------- script body, 173-184
KeepScratch(dir) == dir

\* shutil.rmtree(temp_dir) when it exists (lines 176-177)
RemoveScratch(dir) ==
    IF dir.exists THEN [exists |-> FALSE, files |-> [n \in {} |-> 0]] ELSE dir

Rmtree(s) ==
    /\ pc[s] = "rmtree"
    /\ scratch' = RemoveScratch(scratch)
    /\ Goto(s, "makedirs")
    /\ UNCHANGED <<sessions, upload, clicked, trace, local, procVars, soundfont, net,
                   installed, oemerLocal, budget>>

\* os.makedirs(temp_dir, exist_ok=True) (line 178)
Makedirs(s) ==
    /\ pc[s] = "makedirs"
    /\ scratch' = [scratch EXCEPT !.exists = TRUE]
    /\ Goto(s, "button")
    /\ UNCHANGED <<sessions, upload, clicked, trace, local, procVars, soundfont, net,
                   installed, oemerLocal, budget>>

\* st.image preview and st.button (lines 181-184)
Button(s) ==
    /\ pc[s] = "button"
    /\ IF clicked[s]
       THEN /\ pc' = [pc EXCEPT ![s] = "dl_check"]
            /\ ui' = [ui EXCEPT ![s].status = "running"]
       ELSE /\ pc' = [pc EXCEPT ![s] = "idle"]
            /\ ui' = ui
    /\ UNCHANGED <<sessions, upload, clicked, trace, caught, local, procVars, diskVars,
                   installed, budget>>

\* ------------------------------------------------ download_soundfont, 20-30
AlwaysDownload(sf) == TRUE

\* not os.path.exists(SOUNDFONT_FILE) (line 21)
DownloadNeeded(sf) == sf = "absent"

DownloadCheck(s) ==
    /\ pc[s] = "dl_check"
    /\ Enter(s, "download_soundfont")
    /\ Goto(s, IF DownloadNeeded(soundfont) THEN "dl_fetch" ELSE "patch")
    /\ UNCHANGED <<sessions, upload, clicked, local, procVars, diskVars, installed,
                   budget>>

DownloadOutcomes == {"ok", "network_error", "http_error", "write_error"}

\* requests.get, raise_for_status, open and write (lines 24-27); a failure is
\* reported by st.error and the run is stopped (lines 28-30).
DownloadFetch(s, o) ==
    /\ pc[s] = "dl_fetch"
    /\ Enter(s, "requests.get")
    /\ CASE o = "ok" ->
              /\ soundfont' = "complete"
              /\ net' = [requests |-> net.requests + 1, downloads |-> net.downloads + 1]
              /\ Goto(s, "patch")
         [] o \in {"network_error", "http_error"} ->
              /\ soundfont' = soundfont
              /\ net' = [net EXCEPT !.requests = @ + 1]
              /\ ErrorAndStop(s, "Failed to download SoundFont: " \o o, "patch")
         [] o = "write_error" ->
              \* open(..., "wb") has created or truncated the file
              /\ soundfont' = "partial"
              /\ net' = [net EXCEPT !.requests = @ + 1]
              /\ ErrorAndStop(s, "Failed to download SoundFont: " \o o, "patch")
    /\ UNCHANGED <<sessions, upload, clicked, local, procVars, installed, oemerLocal,
                   scratch, budget>>


\* ---------------------------------------------------------------- files
Exists(p) == p.dir = temp_dir /\ scratch.exists /\ p.name \in DOMAIN scratch.files

\* open(path, "wb") ... write, or a library writing its output file
WriteFile(dir, name, rec) ==
    [dir EXCEPT !.files = [n \in DOMAIN dir.files \cup {name} |->
                              IF n = name THEN rec ELSE dir.files[n]]]

FileRec(body) == [body |-> body]

\* path + "." + ext
AddSuffix(p, ext) == Path(p.dir, Append(p.name, ext))

\* os.path.splitext(path)[0]
SplitextRoot(p) ==
    Path(p.dir, IF Len(p.name) > 1 THEN SubSeq(p.name, 1, Len(p.name) - 1) ELSE p.name)

\* path.replace("." + old, "." + new): every occurrence is replaced
ReplaceExt(p, old, new) ==
    Path(p.dir, [i \in 1..Len(p.name) |->
                    IF i > 1 /\ p.name[i] = old THEN new ELSE p.name[i]])

\* ------------------------------------------------ setup_oemer_patch, 32-64
NeverOnPath(path) == FALSE

\* os.path.abspath(local_oemer_dir) in sys.path (line 41)
AlreadyOnPath(path) == \E i \in 1..Len(path) : path[i] = local_oemer_dir

\* os.path.exists("oemer_local") and os.path.exists("oemer_local/oemer") (line 45)
LocalCopyExists(copy) == {"oemer_local", "oemer_local/oemer"} \subseteq copy.dirs

\* sys.path.insert(0, os.path.abspath(local_oemer_dir)) (lines 46, 64)
Prepend(path) == <<local_oemer_dir>> \o path

Patch(s) ==
    /\ pc[s] = "patch"
    /\ Enter(s, "setup_oemer_patch")
    /\ IF AlreadyOnPath(sysPath)
       THEN sysPath' = sysPath /\ Goto(s, "prepare")
       ELSE IF LocalCopyExists(oemerLocal)
            THEN sysPath' = Prepend(sysPath) /\ Goto(s, "prepare")
            ELSE sysPath' = sysPath /\ Goto(s, "copy")
    /\ UNCHANGED <<sessions, upload, clicked, local, sysArgv, sysModules, diskVars,
                   installed, budget>>

\* importlib.util.find_spec("oemer") (line 51): the first package on sys.path
FindSpec ==
    IF AlreadyOnPath(sysPath) /\ LocalCopyExists(oemerLocal) THEN "local"
    ELSE IF DOMAIN installed # {} THEN "system" ELSE "none"

\* What shutil.copytree can do: fail to create the destination, or create it
\* and copy some of the files (all of them: success).
CopyOutcomes ==
    {[made |-> FALSE, copied |-> {}]} \cup
    {[made |-> TRUE, copied |-> K] : K \in SUBSET PackageFiles}

\* shutil.copytree(system_oemer_path, target_path, dirs_exist_ok=True) (line 61)
CopyTree(copy, o) ==
    [dirs |-> copy.dirs \cup {"oemer_local", "oemer_local/oemer"},
     files |-> [f \in DOMAIN copy.files \cup o.copied |->
                   IF f \in o.copied THEN installed[f] ELSE copy.files[f]]]

Copy(s, o) ==
    /\ pc[s] = "copy"
    /\ CASE FindSpec = "none" ->
              /\ trace' = trace
              /\ ErrorAndStop(s, "Critical: 'oemer' library not found. Check requirements.txt.",
                              "prepare")
              /\ UNCHANGED <<oemerLocal, sysPath>>
         [] FindSpec = "local" ->
              \* the package found is the working copy itself: every file copy
              \* raises SameFileError, collected into shutil.Error
              /\ Enter(s, "copytree")
              /\ Raise(s, Exc("Error", "source and destination are the same file"))
              /\ UNCHANGED <<oemerLocal, sysPath>>
         [] FindSpec = "system" /\ ~o.made ->
              /\ Enter(s, "copytree")
              /\ Raise(s, Exc("OSError", "cannot create oemer_local/oemer"))
              /\ UNCHANGED <<oemerLocal, sysPath>>
         [] FindSpec = "system" /\ o.made /\ o.copied # PackageFiles ->
              /\ Enter(s, "copytree")
              /\ oemerLocal' = CopyTree(oemerLocal, o)
              /\ Raise(s, Exc("Error", "copytree could not copy every file"))
              /\ UNCHANGED sysPath
         [] FindSpec = "system" /\ o.made /\ o.copied = PackageFiles ->
              /\ Enter(s, "copytree")
              /\ oemerLocal' = CopyTree(oemerLocal, o)
              /\ sysPath' = Prepend(sysPath)
              /\ Goto(s, "prepare")
    /\ UNCHANGED <<sessions, upload, clicked, local, sysArgv, sysModules, soundfont, net,
                   scratch, installed, budget>>

\* ---------------------------------------------------- prepare_image, 73-97
\* img.convert('RGB') when img.mode != 'RGB' (lines 93-94)
ToRGB(mode) == IF mode # "RGB" THEN "RGB" ELSE mode

PrepareImage(s, mode, decoded) ==
    /\ pc[s] = "prepare"
    /\ Enter(s, "prepare_image")
    /\ LET temp == IF IsPdfName(upload[s]) THEN <<"temp", "pdf">> ELSE <<"temp_input">>
           output_path == Path(temp_dir, <<"input_score", "png">>)
       IN  IF ~scratch.exists
           THEN /\ Raise(s, Exc("FileNotFoundError", "No such file or directory"))
                /\ UNCHANGED <<scratch, local>>
           ELSE IF ~decoded
           THEN /\ scratch' = WriteFile(scratch, temp, FileRec("upload"))
                /\ Raise(s, Exc("UnidentifiedImageError", "cannot identify image file"))
                /\ UNCHANGED local
           ELSE /\ scratch' = WriteFile(WriteFile(scratch, temp, FileRec("upload")),
                                        output_path.name, FileRec(ToRGB(mode)))
                /\ local' = [local EXCEPT ![s].img_path = output_path]
                /\ Goto(s, "omr_import")
    /\ UNCHANGED <<sessions, upload, clicked, procVars, soundfont, net, installed,
                   oemerLocal, budget>>


\* --------------------------------------------------------- run_omr, 99-137
\* import oemer.ete (lines 102-106): a cached module, else the first oemer
\* package on sys.path must hold ete.py.
ImportOk ==
    \/ "oemer.ete" \in sysModules
    \/ IF AlreadyOnPath(sysPath) /\ LocalCopyExists(oemerLocal)
       THEN "ete.py" \in DOMAIN oemerLocal.files
       ELSE DOMAIN installed # {}

\* The import and the overwrite of sys.argv (lines 102-113)
OmrImport(s) ==
    /\ pc[s] = "omr_import"
    /\ Enter(s, "run_omr")
    /\ IF ImportOk
       THEN /\ sysModules' = sysModules \cup {"oemer.ete"}
            /\ local' = [local EXCEPT ![s].original_argv = sysArgv]
            /\ sysArgv' = <<Path("", <<"oemer">>), local[s].img_path>>
            /\ Goto(s, "omr_main")
       ELSE /\ Raise(s, Exc("ImportError", "No module named 'oemer.ete'"))
            /\ UNCHANGED <<sysModules, local, sysArgv>>
    /\ UNCHANGED <<sessions, upload, clicked, sysPath, diskVars, installed, budget>>

\* How oemer_ete.main() can finish, and the MusicXML file it leaves: none, the
\* image path with ".musicxml" appended, or with its extension replaced.
EngineOutcomes ==
    {[finish |-> "return", code |-> PyNone, out |-> w] : w \in {"none", "appended", "replaced"}}
    \cup {[finish |-> "raise", code |-> PyNone, out |-> "none"]}
    \cup {[finish |-> "exit", code |-> c, out |-> w] :
             c \in ExitCodes, w \in {"none", "appended", "replaced"}}

\* e.code != 0 (line 120)
PyNe(a, b) == a.t # b.t \/ a.v # b.v

\* The exception run_omr raises for the way main() finished (lines 115-123)
EngineError(o) ==
    CASE o.finish = "return" -> NoExc
      [] o.finish = "exit" ->
            IF PyNe(o.code, PyInt(0))
            THEN Exc("RuntimeError", "OMR Engine exited with error code " \o PyStr(o.code))
            ELSE NoExc
      [] o.finish = "raise" ->
            Exc("RuntimeError", "OMR Engine crashed: " \o "inference failed")

RestoreOnSuccessOnly(o, original, current) ==
    IF EngineError(o) = NoExc THEN original ELSE current

\* finally: sys.argv = original_argv (lines 124-125)
ArgvAfterMain(o, original, current) == original

\* The file main() writes for the image named by sys.argv[1]
EngineWrites(o) ==
    IF o.out = "none" \/ Len(sysArgv) < 2 THEN scratch
    ELSE LET image == sysArgv[2]
         IN  IF ~Exists(image) THEN scratch
             ELSE WriteFile(scratch,
                            IF o.out = "appended" THEN AddSuffix(image, "musicxml").name
                            ELSE AddSuffix(SplitextRoot(image), "musicxml").name,
                            FileRec("musicxml"))

\* oemer_ete.main() and the except / finally clauses (lines 115-125)
OmrMain(s, o) ==
    /\ pc[s] = "omr_main"
    /\ Enter(s, "oemer_ete.main")
    /\ scratch' = EngineWrites(o)
    /\ local' = [local EXCEPT ![s].engine = o]
    /\ sysArgv' = ArgvAfterMain(o, local[s].original_argv, sysArgv)
    /\ IF EngineError(o) = NoExc
       THEN Goto(s, "omr_discover")
       ELSE Raise(s, EngineError(o))
    /\ UNCHANGED <<sessions, upload, clicked, sysPath, sysModules, soundfont, net,
                   installed, oemerLocal, budget>>

DiscoverUnchecked(image_path) ==
    LET expected_output == AddSuffix(image_path, "musicxml")
        no_ext_path == AddSuffix(SplitextRoot(image_path), "musicxml")
    IN  IF Exists(expected_output) THEN expected_output ELSE no_ext_path

\* Output discovery (lines 127-137); NoPath: FileNotFoundError is raised
Discover(image_path) ==
    LET expected_output == AddSuffix(image_path, "musicxml")
        no_ext_path == AddSuffix(SplitextRoot(image_path), "musicxml")
    IN  IF Exists(expected_output) THEN expected_output
        ELSE IF Exists(no_ext_path) THEN no_ext_path
        ELSE NoPath

NoXmlMessage ==
    "AI finished but generated no MusicXML file. The image might be too complex or blurry."

OmrDiscover(s) ==
    /\ pc[s] = "omr_discover"
    /\ Enter(s, "discover_output")
    /\ IF Discover(local[s].img_path) = NoPath
       THEN /\ Raise(s, Exc("FileNotFoundError", NoXmlMessage))
            /\ UNCHANGED local
       ELSE /\ local' = [local EXCEPT ![s].xml_path = Discover(local[s].img_path)]
            /\ Goto(s, "gen_midi")
    /\ UNCHANGED <<sessions, upload, clicked, procVars, diskVars, installed, budget>>

\* -------------------------------------------------- generate_audio, 139-163
\* 1. XML -> MIDI (lines 141-150)
GenMidi(s, parsed) ==
    /\ pc[s] = "gen_midi"
    /\ Enter(s, "generate_audio")
    /\ LET xml_path == local[s].xml_path
           midi_path == ReplaceExt(xml_path, "musicxml", "mid")
       IN  IF Exists(xml_path) /\ parsed
           THEN /\ scratch' = WriteFile(scratch, midi_path.name, FileRec("midi"))
                /\ Goto(s, "gen_synth")
           ELSE /\ Raise(s, Exc("ValueError",
                                "Failed to parse music notation: " \o "unreadable score"))
                /\ UNCHANGED scratch
    /\ UNCHANGED <<sessions, upload, clicked, local, procVars, soundfont, net, installed,
                   oemerLocal, budget>>

SynthOutcomes == {"wav", "no_output", "raise"}

\* 2. MIDI -> WAV (lines 152-157).  FluidSynth.midi_to_audio runs the
\* fluidsynth program and ignores its exit status: a failed synthesis leaves
\* no file and raises nothing; a missing program raises.
GenSynth(s, o) ==
    /\ pc[s] = "gen_synth"
    /\ Enter(s, "synthesize")
    /\ LET midi_path == ReplaceExt(local[s].xml_path, "musicxml", "mid")
           wav_path == ReplaceExt(local[s].xml_path, "musicxml", "wav")
       IN  IF soundfont = "absent"
           THEN /\ Raise(s, Exc("FileNotFoundError",
                                "SoundFont file missing: FluidR3Mono_GM.sf3"))
                /\ UNCHANGED scratch
           ELSE IF o = "raise"
           THEN /\ Raise(s, Exc("FileNotFoundError", "No such file: 'fluidsynth'"))
                /\ UNCHANGED scratch
           ELSE IF o = "wav" /\ soundfont = "complete" /\ Exists(midi_path)
           THEN /\ scratch' = WriteFile(scratch, wav_path.name, FileRec("wav"))
                /\ Goto(s, "gen_mp3")
           ELSE /\ scratch' = scratch
                /\ Goto(s, "gen_mp3")
    /\ UNCHANGED <<sessions, upload, clicked, local, procVars, soundfont, net, installed,
                   oemerLocal, budget>>

\* 3. WAV -> MP3 (lines 159-163)
GenMp3(s, encoded) ==
    /\ pc[s] = "gen_mp3"
    /\ Enter(s, "transcode")
    /\ LET wav_path == ReplaceExt(local[s].xml_path, "musicxml", "wav")
           mp3_path == ReplaceExt(local[s].xml_path, "musicxml", "mp3")
       IN  IF ~Exists(wav_path)
           THEN /\ Raise(s, Exc("FileNotFoundError", "No such file: wav"))
                /\ UNCHANGED <<scratch, local>>
           ELSE IF ~encoded
           THEN /\ Raise(s, Exc("CouldntEncodeError", "Encoding failed"))
                /\ UNCHANGED <<scratch, local>>
           ELSE /\ scratch' = WriteFile(scratch, mp3_path.name, FileRec("mp3"))
                /\ local' = [local EXCEPT ![s].mp3_path = mp3_path]
                /\ Goto(s, "show")
    /\ UNCHANGED <<sessions, upload, clicked, procVars, soundfont, net, installed,
                   oemerLocal, budget>>

\* -------------------------------------------------- click handler, 198-207
\* status "Done", st.success, then the MP3 is read for the player and the
\* download button; a failed read is caught like any other exception.
ShowResult(s) ==
    /\ pc[s] = "show"
    /\ Enter(s, "show_result")
    /\ pc' = [pc EXCEPT ![s] = "idle"]
    /\ IF Exists(local[s].mp3_path)
       THEN /\ ui' = [ui EXCEPT ![s].status = "complete", ![s].success = TRUE,
                                ![s].audio = TRUE]
            /\ UNCHANGED caught
       ELSE LET e == Exc("FileNotFoundError", "No such file: mp3")
            IN  /\ ui' = [ui EXCEPT ![s] = HandlerUi([@ EXCEPT !.success = TRUE], e)]
                /\ caught' = [caught EXCEPT ![s] = e]
    /\ UNCHANGED <<sessions, upload, clicked, local, procVars, diskVars, installed,
                   budget>>

\* ------------------------------------------------------------ environment
\* The host removes the cached soundfont (an ephemeral filesystem).
DeleteSoundfont ==
    /\ soundfont # "absent"
    /\ budget.deletes < MaxDeletes
    /\ budget' = [budget EXCEPT !.deletes = @ + 1]
    /\ soundfont' = "absent"
    /\ net' = [net EXCEPT !.downloads = 0]
    /\ UNCHANGED <<sessions, pc, upload, clicked, ui, trace, caught, local, procVars,
                   installed, oemerLocal, scratch>>

\* The server process is restarted while no script runs: sys.path, sys.argv,
\* sys.modules and the sessions are new, the disk is kept.
Restart ==
    /\ \A s \in sessions : pc[s] = "idle"
    /\ budget.restarts < MaxRestarts
    /\ budget' = [budget EXCEPT !.restarts = @ + 1]
    /\ upload' = [s \in AllSessions |-> NoFile]
    /\ clicked' = [s \in AllSessions |-> FALSE]
    /\ ui' = [s \in AllSessions |-> BlankUi]
    /\ trace' = [s \in AllSessions |-> <<>>]
    /\ caught' = [s \in AllSessions |-> NoExc]
    /\ local' = [s \in AllSessions |-> BlankLocal]
    /\ sysPath' = BasePath
    /\ sysArgv' = BaseArgv
    /\ sysModules' = {}
    /\ UNCHANGED <<sessions, pc, diskVars, installed>>

\* ------------------------------------------------------------ specification
Steps ==
    \/ \E s \in sessions, f \in Uploads : Upload(s, f)
    \/ \E s \in sessions : ClearUpload(s)
    \/ \E s \in sessions : Click(s)
    \/ \E s \in sessions : Rmtree(s)
    \/ \E s \in sessions : Makedirs(s)
    \/ \E s \in sessions : Button(s)
    \/ \E s \in sessions : DownloadCheck(s)
    \/ \E s \in sessions, o \in DownloadOutcomes : DownloadFetch(s, o)
    \/ \E s \in sessions : Patch(s)
    \/ \E s \in sessions, o \in CopyOutcomes : Copy(s, o)
    \/ \E s \in sessions, m \in ImageModes, d \in BOOLEAN : PrepareImage(s, m, d)
    \/ \E s \in sessions : OmrImport(s)
    \/ \E s \in sessions, o \in EngineOutcomes : OmrMain(s, o)
    \/ \E s \in sessions : OmrDiscover(s)
    \/ \E s \in sessions, p \in BOOLEAN : GenMidi(s, p)
    \/ \E s \in sessions, o \in SynthOutcomes : GenSynth(s, o)
    \/ \E s \in sessions, e \in BOOLEAN : GenMp3(s, e)
    \/ \E s \in sessions : ShowResult(s)

Next == Steps \/ DeleteSoundfont \/ Restart

\* One session: any sequence of runs, restarts and cache evictions.
Spec == Init /\ [][Next]_vars

\* One or two sessions within one lifetime of the server process.
SpecConc == InitConc /\ [][Steps]_vars


\* ------------------------------------------------------------------ claims
InTrace(s, stage) == \E i \in 1..Len(trace[s]) : trace[s][i] = stage

Count(s, stage) == Cardinality({i \in 1..Len(trace[s]) : trace[s][i] = stage})

\* A button-triggered run of session s has ended.
Finished(s) == pc[s] = "idle" /\ trace[s] # <<>>

NoOutputFor(image_path) ==
    /\ ~Exists(AddSuffix(image_path, "musicxml"))
    /\ ~Exists(AddSuffix(SplitextRoot(image_path), "musicxml"))

AudioFiles ==
    {n \in DOMAIN scratch.files : Len(n) > 0 /\ n[Len(n)] \in {"mid", "wav", "mp3"}}

\* C1: when the OMR entry point has finished without error and neither
\* "<image_path>.musicxml" nor "<image_path without extension>.musicxml" exists,
\* run_omr raises the no-MusicXML FileNotFoundError, the run ends in the error
\* state, generate_audio is never entered and no MIDI, WAV or MP3 file exists.
C1_NoOutputFailsClosed ==
    \A s \in sessions :
        (InTrace(s, "discover_output") /\ NoOutputFor(local[s].img_path)) =>
            /\ pc[s] = "idle"
            /\ caught[s] = Exc("FileNotFoundError", NoXmlMessage)
            /\ ui[s].status = "error"
            /\ ~ui[s].success
            /\ ~InTrace(s, "generate_audio")
            /\ AudioFiles = {}

C1_Witness ==
    \E s \in sessions :
        /\ Finished(s)
        /\ InTrace(s, "discover_output")
        /\ local[s].engine.finish = "exit"
        /\ NoOutputFor(local[s].img_path)

\* C2: a call of download_soundfont that starts while the soundfont file
\* exists returns at once, makes no network request and leaves the file as it
\* is; and at most one download succeeds while the file is not deleted.
C2_ProvisioningIdempotent ==
    [][/\ \A s \in sessions :
             (pc[s] = "dl_check" /\ soundfont # "absent" /\ pc'[s] # "dl_check") =>
                 (pc'[s] = "patch" /\ net' = net /\ soundfont' = soundfont)
       /\ net'.downloads <= 1]_vars

C2_Witness ==
    \E s \in sessions :
        /\ InTrace(s, "download_soundfont")
        /\ ~InTrace(s, "requests.get")
        /\ pc[s] = "patch"
        /\ net = [requests |-> 1, downloads |-> 1]

\* C3: every SystemExit of the OMR entry point whose code means exit status 0
\* (and a normal return) is treated as success and run_omr goes on to output
\* discovery; every other exit or exception becomes a RuntimeError and output
\* discovery is not performed.
C3_CleanExitIsSuccess ==
    \A s \in sessions :
        LET o == local[s].engine
            clean == o.finish = "return" \/ (o.finish = "exit" /\ ExitStatus(o.code) = 0)
        IN  o.finish # "none" =>
                IF clean
                THEN pc[s] = "omr_discover" \/ InTrace(s, "discover_output")
                ELSE /\ caught[s].type = "RuntimeError"
                     /\ ~InTrace(s, "discover_output")

\* C4: a call of setup_oemer_patch that finds the working copy in place (in the
\* process that made it or in a later one) raises nothing, copies nothing,
\* leaves the working copy as it is and leaves the working directory on
\* sys.path exactly once, in first position.
C4_RepatchIsNoOp ==
    [][\A s \in sessions :
          (pc[s] = "patch" /\ LocalCopyExists(oemerLocal) /\ pc'[s] # "patch") =>
              /\ pc'[s] = "prepare"
              /\ caught'[s] = NoExc
              /\ ui'[s].error = ""
              /\ oemerLocal' = oemerLocal
              /\ sysPath' = <<local_oemer_dir>> \o BasePath]_vars

C4_Witness ==
    \E s \in sessions :
        /\ pc[s] = "prepare"
        /\ "oemer.ete" \in sysModules
        /\ budget.restarts = 1
        /\ sysPath = <<local_oemer_dir>> \o BasePath
        /\ DOMAIN oemerLocal.files = PackageFiles

\* C5: after setup_oemer_patch has completed and before run_omr imports the
\* package, no file of the working copy contains the GPU-execution-provider
\* token.
C5_NoGpuTokenInCopy ==
    \A s \in sessions :
        pc[s] \in {"prepare", "omr_import"} =>
            \A f \in DOMAIN oemerLocal.files : ~ContainsToken(oemerLocal.files[f])

StageNames ==
    {"download_soundfont", "requests.get", "setup_oemer_patch", "copytree", "prepare_image",
     "run_omr", "oemer_ete.main", "discover_output", "generate_audio", "synthesize",
     "transcode", "show_result"}

NoRetry(s) == \A stage \in StageNames : Count(s, stage) <= 1

\* The run of s was ended by st.stop(): after a failed download, or when
\* find_spec found no oemer package.
Stopped(s) ==
    /\ Finished(s)
    /\ trace[s][Len(trace[s])] \in {"requests.get", "setup_oemer_patch"}

\* C6 as stated: every failed button-triggered run ends with the failure
\* caught by the click handler, the status indicator failed and the exception
\* message shown; success and the audio player are not shown, nothing is retried.
C6_EveryFailureCaught ==
    \A s \in sessions :
        (Finished(s) /\ ~ui[s].audio) =>
            /\ caught[s] # NoExc
            /\ ui[s].status = "error"
            /\ ui[s].error = "An error occurred: " \o caught[s].msg
            /\ ~ui[s].success
            /\ NoRetry(s)

\* C6 amended: a failure raised as an exception inside the try block is caught
\* by the click handler, which marks the status failed and shows the message;
\* a failed soundfont download or a missing oemer package is shown by st.error
\* and ends the run by st.stop(), the handler catches nothing and the status
\* stays as it was; in both cases success and the audio player are not shown
\* and no stage is retried.
C6_FailureHandling ==
    \A s \in sessions :
        (Finished(s) /\ ~ui[s].audio) =>
            /\ ~ui[s].success
            /\ NoRetry(s)
            /\ ui[s].error # ""
            /\ IF Stopped(s)
               THEN caught[s] = NoExc /\ ui[s].status = "running"
               ELSE /\ caught[s] # NoExc
                    /\ ui[s].status = "error"
                    /\ ui[s].error = "An error occurred: " \o caught[s].msg

C6_Witness ==
    \E s \in sessions :
        /\ Finished(s)
        /\ caught[s].type = "ValueError"
        /\ ui[s].status = "error"

\* C7: sys.argv is ['oemer', image_path] exactly while the OMR entry point
\* executes; before run_omr and after it has returned or raised, whatever the
\* way the entry point finished, it is the process's own argument list.
C7_ArgvRestored ==
    \A s \in sessions :
        IF pc[s] = "omr_main"
        THEN sysArgv = <<Path("", <<"oemer">>), local[s].img_path>>
        ELSE sysArgv = BaseArgv

C7_Witness ==
    \E s \in sessions :
        /\ Finished(s)
        /\ local[s].engine.finish = "raise"
        /\ sysArgv = BaseArgv

DownloadFailureMessages ==
    {"Failed to download SoundFont: " \o o : o \in DownloadOutcomes \ {"ok"}}

\* C8: when the soundfont download fails, the error is shown and the run is
\* over: the download was attempted once and none of setup_oemer_patch,
\* prepare_image, run_omr and generate_audio is executed.
C8_DownloadFailureAborts ==
    \A s \in sessions :
        ui[s].error \in DownloadFailureMessages =>
            /\ pc[s] = "idle"
            /\ trace[s] = <<"download_soundfont", "requests.get">>
            /\ ~ui[s].success /\ ~ui[s].audio

C8_Witness ==
    \E s \in sessions :
        /\ ui[s].error = "Failed to download SoundFont: http_error"
        /\ pc[s] = "idle"
        /\ net.requests = 1

\* C9: with one session, from the recreation of temp_workspace at the start of
\* a run until prepare_image writes, the directory exists and is empty. (With
\* two sessions another run's rmtree can remove a running pipeline's files:
\* C9_Witness.)
C9_ScratchFresh ==
    \A s \in sessions :
        (sessions = {s} /\
         pc[s] \in {"button", "dl_check", "dl_fetch", "patch", "copy", "prepare"}) =>
            scratch.exists /\ DOMAIN scratch.files = {}

C9_Witness ==
    /\ sessions = {1, 2}
    /\ \E s \in sessions :
          /\ pc[s] \in {"omr_import", "omr_main", "omr_discover", "gen_midi", "gen_synth",
                        "gen_mp3"}
          /\ local[s].img_path # NoPath
          /\ ~Exists(local[s].img_path)

\* C10: whenever the working directory is on sys.path, oemer_local/oemer holds
\* every file of the installed package, with the installed text.
C10_CopyComplete ==
    AlreadyOnPath(sysPath) =>
        \A f \in PackageFiles :
            f \in DOMAIN oemerLocal.files /\ oemerLocal.files[f] = installed[f]


====
